---- MODULE Spec2Model ----
(***************************************************************************)
(* Model of src/widgets/paragraph.rs: the Paragraph widget's builder       *)
(* methods, get_line_offset and Widget::draw.                              *)
(*                                                                         *)
(* The line composer (widgets/reflow.rs) is an input of draw: it yields a  *)
(* number of lines (possibly without end), each a sequence of units of     *)
(* display width 0, 1 or 2 whose stored width is the sum of the unit       *)
(* widths and is at most the width it was constructed with.                *)
(* The buffer records the symbol written into each cell; set_style writes  *)
(* the same cells as set_symbol and is not recorded separately.            *)
(* The block is None, so text_area = area.  A Paragraph is built, then     *)
(* drawn once: the text iterator it borrows is consumed by the draw.       *)
(* rows records, for each viewport row, which branch of the row loop ran:  *)
(* the index of the composed line painted there, Filler, or Blank when     *)
(* the row was left untouched.                                             *)
(* Arithmetic keeps the widths of the source: u16 and i16.  An overflow    *)
(* panics when the build checks overflows and wraps otherwise; the build   *)
(* profile is the variable overflow_checks.                                *)
(***************************************************************************)
EXTENDS Integers, Sequences, FiniteSets, TLC

VARIABLES
    scroll,                 \* Paragraph.scroll: u16
    scroll_from,            \* Paragraph.scroll_from
    scroll_overflow_char,   \* Paragraph.scroll_overflow_char: Option<char>
    alignment,              \* Paragraph.alignment
    overflow_checks,        \* build profile: TRUE = overflow panics, FALSE = wraps
    text_area,              \* the Rect draw was called with
    composer,               \* what the line composer yields in this draw
    first_line_index,       \* draw's local first_line_index: i16
    requests,               \* calls of line_composer.next_line() made by draw
    rows,                   \* per viewport row: line index painted, Filler or Blank
    buf,                    \* the buffer: cell <<column, row>> -> symbol written
    panic,                  \* "none", "overflow" or "unwrap"
    pc,                     \* "new", "done", "panicked", "hung"
    offset_call             \* last call of get_line_offset (specification SpecOffset)

vars == <<scroll, scroll_from, scroll_overflow_char, alignment, overflow_checks,
          text_area, composer, first_line_index, requests, rows, buf, panic, pc,
          offset_call>>

----------------------------------------------------------------------------
(* Bounds of the model *)

MaxScroll == 2
MaxLines == 3
MaxHeight == 2
MaxWidth == 2
MaxUnits == 2
MaxOrigin == 1
MaxOffsetArg == 6

(* Limits of the integer types of the source *)

U16_MAX == 65535
I16_MAX == 32767

U16_MOD == U16_MAX + 1
I16_MIN == -I16_MAX - 1

----------------------------------------------------------------------------
(* Values *)

Alignments == {"Left", "Center", "Right"}
ScrollFroms == {"Top", "Bottom"}
None == "None"
OverflowChars == {"~"}

Filler == -1
Blank == -2

NoRect == [left |-> 0, top |-> 0, width |-> 0, height |-> 0]
NoComposer == [count |-> 0, endless |-> FALSE, units |-> <<>>]
NoCall == [line_width |-> -1, text_area_width |-> -1, alignment |-> "Left", result |-> -1]
EmptyBuf == [c \in {} |-> 0]

(* Scroll offsets: small ones and the edges of the i16 and u16 ranges *)
ScrollValues == (0..MaxScroll) \cup {I16_MAX, I16_MAX + 1, I16_MAX + 2, U16_MAX}

(* Line counts: small ones and counts beyond the i16 range *)
LineCounts == (0..MaxLines) \cup {I16_MAX + 1, U16_MAX}

RECURSIVE SumWidths(_)
SumWidths(units) ==
    IF units = <<>> THEN 0 ELSE Head(units) + SumWidths(Tail(units))

UnitSeqs == UNION {[1..n -> {0, 1, 2}] : n \in 0..MaxUnits}

(* Lines a composer constructed with max width w may yield *)
LinesOfWidth(w) == {u \in UnitSeqs : SumWidths(u) <= w}

Composers(w) ==
    [count : LineCounts, endless : {FALSE}, units : LinesOfWidth(w)]
    \cup [count : {0}, endless : {TRUE}, units : LinesOfWidth(w)]

Rects ==
    [left : 0..MaxOrigin, top : 0..MaxOrigin, width : 0..MaxWidth, height : 0..MaxHeight]

----------------------------------------------------------------------------
(* Integer operations of the source's widths *)

\* `x as i16`
AsI16(x) ==
    LET m == x % U16_MOD IN IF m > I16_MAX THEN m - U16_MOD ELSE m

\* `x as u16`
AsU16(x) == x % U16_MOD

\* u16 addition: the wrapped value and whether it overflowed
AddU16(a, b) == [v |-> (a + b) % U16_MOD, ovf |-> a + b > U16_MAX]

\* i16 arithmetic result r: the wrapped value and whether it overflowed
WrapI16(r) == [v |-> AsI16(r), ovf |-> r > I16_MAX \/ r < I16_MIN]

Max(a, b) == IF a >= b THEN a ELSE b

\* u16::saturating_sub
saturating_sub(a, b) == Max(0, a - b)

----------------------------------------------------------------------------
(* get_line_offset *)

\* Mutant: Center halves the difference instead of subtracting the halves
get_line_offset_halved_difference(line_width, text_area_width, align) ==
    CASE align = "Center" -> saturating_sub(text_area_width, line_width) \div 2
      [] align = "Right" -> saturating_sub(text_area_width, line_width)
      [] align = "Left" -> 0

get_line_offset(line_width, text_area_width, align) ==
    CASE align = "Center" -> saturating_sub(text_area_width \div 2, line_width \div 2)
      [] align = "Right" -> saturating_sub(text_area_width, line_width)
      [] align = "Left" -> 0

----------------------------------------------------------------------------
(* Widget::draw, lines 162-218: the first line index *)

\* ScrollFrom::Top arm: `self.scroll as i16`
TopFirstLine(sc) == [v |-> AsI16(sc), ovf |-> FALSE]

\* ScrollFrom::Bottom arm, scroll_overflow_char = None
BottomFirstLineNone(num_lines, height, sc) ==
    LET sum == AddU16(height, sc) IN
    IF num_lines <= sum.v
    THEN [v |-> 0, ovf |-> sum.ovf]
    ELSE [v |-> AsI16(num_lines - sum.v), ovf |-> sum.ovf]

\* ScrollFrom::Bottom arm, scroll_overflow_char = Some(_)
BottomFirstLineSome(num_lines, height, sc) ==
    IF num_lines <= height
    THEN WrapI16(-AsI16(sc))
    ELSE LET sum == AddU16(height, sc)
             diff == WrapI16(AsI16(num_lines) - AsI16(sum.v))
         IN [v |-> diff.v, ovf |-> sum.ovf \/ diff.ovf]

\* The match on self.scroll_from: the value of first_line_index and whether
\* an operation on the way overflowed.  count is all_lines.len().
FirstLineIndex(from, ovc, sc, height, count) ==
    IF from = "Top" THEN TopFirstLine(sc)
    ELSE IF ovc = None THEN BottomFirstLineNone(AsU16(count), height, sc)
    ELSE BottomFirstLineSome(AsU16(count), height, sc)

----------------------------------------------------------------------------
(* Widget::draw, lines 220-246: the row loop *)

\* buf.get_mut(x, y).set_symbol(sym)
SetSymbol(b, cell, sym) ==
    [c \in DOMAIN b \cup {cell} |-> IF c = cell THEN sym ELSE b[c]]

\* for Styled(symbol, style) in current_line { ...; x += symbol.width() }
RECURSIVE PaintUnits(_, _, _, _, _, _)
PaintUnits(b, area, units, j, x, at) ==
    IF j > Len(units) THEN b
    ELSE PaintUnits(
            SetSymbol(b, <<area.left + x, area.top + at.y>>, [line |-> at.line, pos |-> j]),
            area, units, j + 1, AsU16(x + units[j]), at)

\* Lines 230-238: one composed line painted at row y
PaintLine(b, d, y, line) ==
    PaintUnits(b, d.area, d.comp.units, 1,
               get_line_offset(SumWidths(d.comp.units), d.area.width, d.align),
               [y |-> y, line |-> line])

\* Lines 224-226: the filler row
FillerRow(st, d, y) ==
    IF d.ovc = None
    THEN [st EXCEPT !.panic = "unwrap"]
    ELSE [st EXCEPT !.buf = SetSymbol(st.buf, <<d.area.left, d.area.top + y>>,
                                      [line |-> Filler, pos |-> 0]),
                    !.rows = [st.rows EXCEPT ![y] = Filler]]

\* Lines 229-240: a line was yielded with current_line_index >= first_line_index:
\* it is painted, current_line_index += 1, break.  skipped lines were pulled
\* and counted before it.
PaintNext(st, d, y, skipped, cur) ==
    LET inc == WrapI16(cur + 1) IN
    [st EXCEPT !.buf = PaintLine(st.buf, d, y, st.pulled + skipped),
               !.rows = [st.rows EXCEPT ![y] = st.pulled + skipped],
               !.calls = st.calls + skipped + 1,
               !.pulled = st.pulled + skipped + 1,
               !.cur = inc.v,
               !.panic = IF inc.ovf /\ d.checks THEN "overflow" ELSE "none"]

\* Lines 228-244: the while-let loop of one row, in closed form.  While
\* current_line_index < first_line_index each yielded line only increments
\* current_line_index (no overflow: it stays <= first_line_index), so the
\* loop skips first_line_index - current_line_index lines, or all that are
\* left when there are fewer, and then paints the next line if there is one.
PullLines(st, d, y) ==
    LET skip == IF st.cur >= d.first THEN 0 ELSE d.first - st.cur
        left == d.comp.count - st.pulled
    IN IF d.comp.endless \/ left > skip
       THEN PaintNext(st, d, y, skip, IF skip = 0 THEN st.cur ELSE d.first)
       ELSE [st EXCEPT !.calls = st.calls + left + 1,
                       !.pulled = st.pulled + left,
                       !.cur = st.cur + left]

\* Lines 223-245: one iteration of `for y in 0..text_area.height`
DrawRow(st, d, y) ==
    LET neg == WrapI16(-d.first) IN
    IF neg.ovf /\ d.checks THEN [st EXCEPT !.panic = "overflow"]
    ELSE IF AsI16(y) < neg.v THEN FillerRow(st, d, y)
    ELSE PullLines(st, d, y)

RECURSIVE DrawRows(_, _, _)
DrawRows(st, d, y) ==
    IF y >= d.area.height \/ st.panic # "none" THEN st
    ELSE DrawRows(DrawRow(st, d, y), d, y + 1)

\* Line 220 and the state the loop starts from
LoopStart(area) ==
    [cur |-> 0, calls |-> 0, pulled |-> 0, buf |-> EmptyBuf,
     rows |-> [y \in 0..(area.height - 1) |-> Blank], panic |-> "none"]

----------------------------------------------------------------------------
(* Widget::draw as a whole *)

\* What draw leaves behind.  area is the Rect it is called with; comp is what
\* the composer built at lines 156-160 yields.
DrawOutcome(area, comp) ==
    IF area.height < 1
    THEN \* lines 137-139
         [first |-> 0, requests |-> 0, rows |-> LoopStart(area).rows,
          buf |-> EmptyBuf, panic |-> "none", pc |-> "done"]
    ELSE IF scroll_from = "Bottom" /\ comp.endless
    THEN \* line 176: collect_lines never returns
         [first |-> 0, requests |-> 0, rows |-> LoopStart(area).rows,
          buf |-> EmptyBuf, panic |-> "none", pc |-> "hung"]
    ELSE LET fli == FirstLineIndex(scroll_from, scroll_overflow_char, scroll,
                                   area.height, comp.count)
             \* line 176: collect_lines makes count + 1 calls of next_line
             collected == IF scroll_from = "Bottom" THEN comp.count + 1 ELSE 0
         IN IF fli.ovf /\ overflow_checks
            THEN [first |-> 0, requests |-> collected, rows |-> LoopStart(area).rows,
                  buf |-> EmptyBuf, panic |-> "overflow", pc |-> "panicked"]
            ELSE LET d == [area |-> area, comp |-> comp, first |-> fli.v,
                           ovc |-> scroll_overflow_char, align |-> alignment,
                           checks |-> overflow_checks]
                     st == DrawRows(LoopStart(area), d, 0)
                 IN [first |-> fli.v,
                     requests |-> IF scroll_from = "Top" THEN st.calls ELSE collected,
                     rows |-> st.rows, buf |-> st.buf, panic |-> st.panic,
                     pc |-> IF st.panic = "none" THEN "done" ELSE "panicked"]

draw(area, comp) ==
    /\ pc = "new"
    /\ LET out == DrawOutcome(area, comp) IN
        /\ text_area' = area
        /\ composer' = comp
        /\ first_line_index' = out.first
        /\ requests' = out.requests
        /\ rows' = out.rows
        /\ buf' = out.buf
        /\ panic' = out.panic
        /\ pc' = out.pc
    /\ UNCHANGED <<scroll, scroll_from, scroll_overflow_char, alignment,
                   overflow_checks, offset_call>>

----------------------------------------------------------------------------
(* The builder methods of Paragraph, lines 100-121 *)

Paragraph_scroll(offset) ==
    /\ pc = "new"
    /\ scroll' = offset
    /\ UNCHANGED <<scroll_from, scroll_overflow_char, alignment, overflow_checks,
                   text_area, composer, first_line_index, requests, rows, buf,
                   panic, pc, offset_call>>

Paragraph_scroll_from(from) ==
    /\ pc = "new"
    /\ scroll_from' = from
    /\ UNCHANGED <<scroll, scroll_overflow_char, alignment, overflow_checks,
                   text_area, composer, first_line_index, requests, rows, buf,
                   panic, pc, offset_call>>

Paragraph_scroll_overflow_char(ch) ==
    /\ pc = "new"
    /\ scroll_overflow_char' = ch
    /\ UNCHANGED <<scroll, scroll_from, alignment, overflow_checks,
                   text_area, composer, first_line_index, requests, rows, buf,
                   panic, pc, offset_call>>

Paragraph_alignment(align) ==
    /\ pc = "new"
    /\ alignment' = align
    /\ UNCHANGED <<scroll, scroll_from, scroll_overflow_char, overflow_checks,
                   text_area, composer, first_line_index, requests, rows, buf,
                   panic, pc, offset_call>>

----------------------------------------------------------------------------
(* Specification of the widget: Paragraph::new, builder calls, one draw *)

\* Paragraph::new, lines 66-78
Init ==
    /\ scroll = 0
    /\ scroll_from = "Top"
    /\ scroll_overflow_char = None
    /\ alignment = "Left"
    /\ overflow_checks \in BOOLEAN
    /\ text_area = NoRect
    /\ composer = NoComposer
    /\ first_line_index = 0
    /\ requests = 0
    /\ rows = LoopStart(NoRect).rows
    /\ buf = EmptyBuf
    /\ panic = "none"
    /\ pc = "new"
    /\ offset_call = NoCall

Next ==
    \/ \E offset \in ScrollValues : Paragraph_scroll(offset)
    \/ \E from \in ScrollFroms : Paragraph_scroll_from(from)
    \/ \E ch \in OverflowChars \cup {None} : Paragraph_scroll_overflow_char(ch)
    \/ \E align \in Alignments : Paragraph_alignment(align)
    \/ \E area \in Rects : \E comp \in Composers(area.width) : draw(area, comp)

Spec == Init /\ [][Next]_vars

----------------------------------------------------------------------------
(* Specification of get_line_offset alone, over arguments that include     *)
(* lines wider than the text area and the largest u16                      *)

OffsetArgs == (0..MaxOffsetArg) \cup {U16_MAX - 1, U16_MAX}

CallGetLineOffset(line_width, text_area_width, align) ==
    /\ offset_call' = [line_width |-> line_width, text_area_width |-> text_area_width,
                       alignment |-> align,
                       result |-> get_line_offset(line_width, text_area_width, align)]
    /\ UNCHANGED <<scroll, scroll_from, scroll_overflow_char, alignment, overflow_checks,
                   text_area, composer, first_line_index, requests, rows, buf,
                   panic, pc>>

NextOffset ==
    \E lw \in OffsetArgs, w \in OffsetArgs, align \in Alignments :
        CallGetLineOffset(lw, w, align)

SpecOffset == Init /\ [][NextOffset]_vars

----------------------------------------------------------------------------
(* Properties *)

Drawn == pc # "new"
RowsOf(area) == 0..(area.height - 1)
InViewport(cell) ==
    /\ text_area.left <= cell[1] /\ cell[1] < text_area.left + text_area.width
    /\ text_area.top <= cell[2] /\ cell[2] < text_area.top + text_area.height
\* The composer has a line with index i
HasLine(i) == composer.endless \/ i < composer.count

\* C1: every cell draw writes a content unit into lies inside the viewport:
\* its column is in [left, left + width) and its row in [top, top + height).
C1_ContentInsideViewport ==
    Drawn => \A cell \in DOMAIN buf : buf[cell].line >= 0 => InViewport(cell)

\* C2: with Top anchor and offset k, draw completes and row r shows line
\* k + r when that line exists and is left untouched otherwise (the draw of
\* the suffix starting at line k with offset 0).
C2_TopSkipsOffsetLines ==
    (Drawn /\ scroll_from = "Top") =>
        /\ pc = "done"
        /\ \A r \in RowsOf(text_area) :
            rows[r] = IF HasLine(scroll + r) THEN scroll + r ELSE Blank

\* C3: with Bottom anchor and no overflow character the start index is never
\* negative, is 0 whenever total <= height + offset, and content that has no
\* more lines than the viewport is shown from line 0 for every offset.
C3_BottomNoneNeverScrollsShort ==
    (Drawn /\ scroll_from = "Bottom" /\ scroll_overflow_char = None
           /\ text_area.height >= 1 /\ ~composer.endless) =>
        /\ first_line_index >= 0
        /\ composer.count <= text_area.height + scroll => first_line_index = 0
        /\ composer.count <= text_area.height =>
            /\ pc = "done"
            /\ \A r \in RowsOf(text_area) :
                rows[r] = IF r < composer.count THEN r ELSE Blank

\* C4: with Bottom anchor, an overflow character, total <= height and offset
\* k > 0, the k topmost rows (all rows when k >= height) are filler rows and
\* the rows below them show the content from line 0.
C4_BottomSomeFillsTopRows ==
    (Drawn /\ scroll_from = "Bottom" /\ scroll_overflow_char # None
           /\ text_area.height >= 1 /\ ~composer.endless
           /\ composer.count <= text_area.height /\ scroll > 0) =>
        /\ pc = "done"
        /\ \A r \in RowsOf(text_area) :
            rows[r] = IF r < scroll THEN Filler
                      ELSE IF r - scroll < composer.count THEN r - scroll
                      ELSE Blank

\* C5: with Bottom anchor and total > height + offset, row r shows line
\* total - (height + offset) + r, with or without an overflow character.
C5_BottomShowsTail ==
    (Drawn /\ scroll_from = "Bottom" /\ text_area.height >= 1 /\ ~composer.endless
           /\ composer.count > text_area.height + scroll) =>
        /\ pc = "done"
        /\ \A r \in RowsOf(text_area) :
            rows[r] = composer.count - (text_area.height + scroll) + r

\* C6: with Top anchor and an overflow character, draw paints the filler in
\* no row, for every scroll offset.
C6_TopNeverPaintsFiller ==
    (Drawn /\ scroll_from = "Top" /\ scroll_overflow_char # None) =>
        /\ \A r \in RowsOf(text_area) : rows[r] # Filler
        /\ \A cell \in DOMAIN buf : buf[cell].line # Filler

\* C7: when the viewport width is 0 and the height at least 1, draw writes
\* no symbol into any cell.
C7_ZeroWidthWritesNothing ==
    (Drawn /\ text_area.width = 0 /\ text_area.height >= 1) => DOMAIN buf = {}

\* C8: a Top-anchored draw terminates and requests at most offset + height
\* lines from the composer; a Bottom-anchored draw drains the composer
\* before it paints any row.
C8_TopRequestsBounded ==
    Drawn =>
        /\ scroll_from = "Top" =>
            /\ pc # "hung"
            /\ requests <= scroll + text_area.height
        /\ (scroll_from = "Bottom" /\ text_area.height >= 1) =>
            IF composer.endless
            THEN pc = "hung" /\ DOMAIN buf = {}
            ELSE requests = composer.count + 1

\* C10: without an overflow character draw never reaches the unwrap of the
\* filler branch: the first line index is >= 0 for both anchors.
C10_NoneNeverUnwraps ==
    (Drawn /\ scroll_overflow_char = None) =>
        /\ panic # "unwrap"
        /\ first_line_index >= 0

\* C9: get_line_offset returns 0 for Left, max(0, width - line_width) for
\* Right and max(0, width/2 - line_width/2) for Center; for line_width <= width
\* the columns [start, start + line_width) lie in [0, width), a Right-aligned
\* line ends at the right edge and the margins of a Center-aligned line
\* differ by at most 1.
C9_LineOffset ==
    offset_call # NoCall =>
        LET lw == offset_call.line_width
            w == offset_call.text_area_width
            start == offset_call.result
            right_margin == w - (start + lw)
        IN /\ offset_call.alignment = "Left" => start = 0
           /\ offset_call.alignment = "Right" => start = Max(0, w - lw)
           /\ offset_call.alignment = "Center" => start = Max(0, (w \div 2) - (lw \div 2))
           /\ lw <= w =>
                /\ 0 <= start /\ start + lw <= w
                /\ offset_call.alignment = "Right" => right_margin = 0
                /\ offset_call.alignment = "Center" =>
                     start - right_margin \in {-1, 0, 1}

\* A Center-aligned line of odd width in a wider area of even width, placed
\* with unequal margins
C9_Witness ==
    /\ offset_call # NoCall
    /\ offset_call.alignment = "Center"
    /\ offset_call.line_width % 2 = 1
    /\ offset_call.text_area_width % 2 = 0
    /\ offset_call.line_width < offset_call.text_area_width
    /\ offset_call.result > 0
    /\ offset_call.result # offset_call.text_area_width
                              - (offset_call.result + offset_call.line_width)

====
